---------------------------- MODULE Spec2Model ----------------------------
(***************************************************************************)
(* Model of lhpcdt/jobs.py: the SLURM job classes Job, PlaceHolderJob,     *)
(* JupyterNotebookJob, JupyterLabJob and VMJob.                            *)
(*                                                                         *)
(* A job object is a record of its attributes.  Python strings are TLA+    *)
(* strings, Python lists are sequences.  Every method is an operator from  *)
(* the object (and the method's arguments) to the object after the call;   *)
(* the actions further down apply the methods to the state.                *)
(***************************************************************************)
EXTENDS Integers, Sequences, FiniteSets, TLC

VARIABLES
    job,        \* the job object under test
    twin,       \* a second, independent job object
    fs,         \* the file system: path -> whether a file is there, its lines
    stdout,     \* what the callbacks have printed so far
    raised,     \* the exception the last call ended with ("" for none)
    op,         \* history: per object, the kind of call made on it last
    firstGood   \* history: the well-formed token lines delivered so far

vars == <<job, twin, fs, stdout, raised, op, firstGood>>

---------------------------------------------------------------------------
(* Bounds of the model.                                                    *)

MaxItems == 2       \* constraints, modules and custom lines added to a job
MaxBatch == 2       \* lines per do_process_output batch
MaxPrinted == 2     \* lines the callbacks print before printing calls stop
MaxExtra == 1       \* add_script / add_option calls between renderings

---------------------------------------------------------------------------
(* Python string primitives, on TLA+ strings.                              *)

Whitespace == {" ", "\t", "\n", "\r"}

CharAt(s, i) == SubSeq(s, i, i)

RECURSIVE FindFrom(_, _, _)
\* str.find(sub) from 1-based position i: the first position, or 0 for -1.
FindFrom(s, sub, i) ==
    IF i + Len(sub) - 1 > Len(s) THEN 0
    ELSE IF SubSeq(s, i, i + Len(sub) - 1) = sub THEN i
    ELSE FindFrom(s, sub, i + 1)

Find(s, sub) == FindFrom(s, sub, 1) - 1

RECURSIVE SkipWhite(_, _)
SkipWhite(s, i) ==
    IF i <= Len(s) /\ CharAt(s, i) \in Whitespace THEN SkipWhite(s, i + 1) ELSE i

RECURSIVE SkipWord(_, _)
SkipWord(s, i) ==
    IF i <= Len(s) /\ CharAt(s, i) \notin Whitespace THEN SkipWord(s, i + 1) ELSE i

RECURSIVE SplitFrom(_, _)
SplitFrom(s, i) ==
    LET b == SkipWhite(s, i)
        e == SkipWord(s, b)
    IN  IF b > Len(s) THEN <<>>
        ELSE <<SubSeq(s, b, e - 1)>> \o SplitFrom(s, e)

\* str.split(): the maximal runs of non-whitespace characters.
Split(s) == SplitFrom(s, 1)

RECURSIVE LastNonWhite(_, _)
LastNonWhite(s, i) ==
    IF i >= 1 /\ CharAt(s, i) \in Whitespace THEN LastNonWhite(s, i - 1) ELSE i

\* str.strip(): leading and trailing whitespace removed.
Strip(s) == SubSeq(s, SkipWhite(s, 1), LastNonWhite(s, Len(s)))

RECURSIVE Join(_, _)
\* sep.join(lines)
Join(sep, lines) ==
    IF lines = <<>> THEN ""
    ELSE IF Len(lines) = 1 THEN lines[1]
    ELSE lines[1] \o sep \o Join(sep, Tail(lines))

RECURSIVE SplitOn(_, _, _)
\* str.split(sep) for a one-character sep, from position i.
SplitOn(s, sep, i) ==
    LET j == FindFrom(s, sep, i)
    IN  IF j = 0 THEN <<SubSeq(s, i, Len(s))>>
        ELSE <<SubSeq(s, i, j - 1)>> \o SplitOn(s, sep, j + 1)

\* The lines of a text: str.split("\n").
Lines(s) == SplitOn(s, "\n", 1)

StartsWith(s, prefix) ==
    Len(s) >= Len(prefix) /\ SubSeq(s, 1, Len(prefix)) = prefix

Range(seq) == {seq[i] : i \in 1..Len(seq)}

---------------------------------------------------------------------------
(* class Job                                                               *)

\* The value of an attribute the object's class never assigns.
NoAttr == "<no attribute>"

add_constraint(self, constraint) ==
    [self EXCEPT !.constraints = Append(@, constraint)]

clear_constraints(self) == [self EXCEPT !.constraints = <<>>]

add_script(self, line) == [self EXCEPT !.scriptLines = Append(@, line)]

add_option(self, option) == add_script(self, "#SBATCH " \o option)

add_module(self, name, version) ==
    [self EXCEPT !.module_list = Append(@, <<name, version>>)]

clear_script_text(self) ==
    [self EXCEPT !.scriptLines = <<>>, !.customLines = <<>>,
                 !.constraints = <<>>, !.module_list = <<>>, !.script = ""]

clear_script(self) ==
    [self EXCEPT !.scriptLines = <<>>, !.customLines = <<>>,
                 !.constraints = <<>>, !.module_list = <<>>]

\* _create_script, statement by statement.

reset_script_keep(self) == add_script(add_script(self, self.magic), "")

reset_script(self) ==
    add_script(add_script([self EXCEPT !.scriptLines = <<>>], self.magic), "")

emit_account(self) ==
    IF self.account # "" THEN add_option(self, "-A " \o self.account) ELSE self

emit_placement(self) ==
    IF self.submitNode THEN add_option(self, "-w " \o self.node)
    ELSE IF self.partition # "" THEN add_option(self, "-p " \o self.partition)
    ELSE self

emit_nodeCount(self) ==
    IF self.nodeCount >= 0
    THEN add_option(self, "-N " \o ToString(self.nodeCount)) ELSE self

emit_tasksPerNode(self) ==
    IF self.tasksPerNode >= 0
    THEN add_option(self, "--ntasks-per-node=" \o ToString(self.tasksPerNode))
    ELSE self

emit_time(self) == add_option(self, "--time=" \o self.time)

emit_gres_space(self) ==
    IF self.gres # "" THEN add_option(self, "--gres " \o self.gres) ELSE self

emit_gres(self) ==
    IF self.gres # "" THEN add_option(self, "--gres=" \o self.gres) ELSE self

emit_memory_ge(self) ==
    IF self.memory >= 0
    THEN add_option(self, "--mem=" \o ToString(self.memory)) ELSE self

emit_memory(self) ==
    IF self.memory > 0
    THEN add_option(self, "--mem=" \o ToString(self.memory)) ELSE self

emit_exclusive(self) ==
    IF self.exclusive THEN add_option(self, "--exclusive") ELSE self

emit_oversubscribe(self) ==
    IF self.oversubscribe THEN add_option(self, "--oversubscribe") ELSE self

emit_constraints(self) ==
    IF Len(self.constraints) > 0
    THEN IF Len(self.constraints) = 1
         THEN add_option(self, "--constraint=" \o self.constraints[1])
         ELSE add_option(self, "--constraint=" \o Join("&", self.constraints))
    ELSE self

emit_name(self) == add_option(self, "-J " \o self.name)

\* The literal echo lines of the script.  A TLA+ string literal cannot hold
\* a backquote, so the two lines that use one (`date`, `pwd`) carry an
\* apostrophe in its place; nothing in the program looks inside them.
EchoBlock ==
    << "",
       "echo \"Starting at 'date'\"",
       "echo \"Running on hosts: $SLURM_NODELIST\"",
       "echo \"Running on $SLURM_NNODES nodes.\"",
       "echo \"Running on $SLURM_NPROCS processors.\"",
       "echo \"SLURM JobID $SLURM_JOB_ID processors.\"",
       "echo \"Node has $SLURM_CPUS_ON_NODE processors.\"",
       "echo \"Node has $SLURM_MEM_PER_NODE total memory.\"",
       "echo \"Node has $SLURM_MEM_PER_CPU memory per cpu.\"",
       "echo \"Current working directory is 'pwd'\"",
       "echo \"Current path is $PATH\"",
       "" >>

RECURSIVE add_scripts(_, _)
\* add_script called once per line of a list, in order.
add_scripts(self, lines) ==
    IF lines = <<>> THEN self
    ELSE add_scripts(add_script(self, Head(lines)), Tail(lines))

emit_echo(self) == add_scripts(self, EchoBlock)

module_line(module) ==
    IF module[2] = "" THEN "module load " \o module[1]
    ELSE "module load " \o module[1] \o "/" \o module[2]

emit_modules(self) ==
    add_scripts(self, [i \in 1..Len(self.module_list) |->
                          module_line(self.module_list[i])])

join_script_custom_first(self) ==
    [self EXCEPT !.script = Join("\n", self.customLines \o self.scriptLines)]

join_script(self) ==
    [self EXCEPT !.script = Join("\n", self.scriptLines \o self.customLines)]

_create_script(self) ==
    join_script(emit_modules(emit_echo(emit_name(emit_constraints(
    emit_oversubscribe(emit_exclusive(emit_memory(emit_gres(emit_time(
    emit_tasksPerNode(emit_nodeCount(emit_placement(emit_account(
    reset_script(self)))))))))))))))

add_custom_script(self, line) == [self EXCEPT !.customLines = Append(@, line)]

update(self) == _create_script(self)

set_process_output(self, flag) == [self EXCEPT !._process_output = flag]

get_process_output(self) == self._process_output

JobInit(cls, account, partition, time) ==
    _create_script(
        [ cls |-> cls,
          script |-> "", id |-> -1, status |-> "",
          magic |-> "#!/bin/bash", name |-> "gui_interactive", nodes |-> "",
          tasksPerNode |-> 1, cpusPerNode |-> -1, exclusive |-> FALSE,
          time |-> time, nodeCount |-> 1, memory |-> -1,
          account |-> account, partition |-> partition,
          node |-> "", submitNode |-> FALSE,
          constraints |-> <<>>, gres |-> "", oversubscribe |-> FALSE,
          module_list |-> <<>>, scriptLines |-> <<>>, customLines |-> <<>>,
          _process_output |-> FALSE, update_processing |-> FALSE,
          notebook_url |-> NoAttr, notebook_module |-> NoAttr,
          jupyterlab_module |-> NoAttr, hostname |-> NoAttr ])

---------------------------------------------------------------------------
(* The subclasses' constructors.  Each runs Job.__init__, which renders     *)
(* the script, and then assigns its own attributes.                        *)

PlaceHolderJobInit(account, partition, time) ==
    update(add_custom_script(JobInit("PlaceHolderJob", account, partition, time),
                             "while true; do date; sleep 5; done"))

JupyterNotebookJobInit(account, partition, time, notebook_module) ==
    LET s0 == JobInit("JupyterNotebookJob", account, partition, time)
        s1 == set_process_output([s0 EXCEPT !.notebook_url = ""], TRUE)
        s2 == add_module([s1 EXCEPT !.notebook_module = notebook_module],
                         notebook_module, "")
    IN  add_custom_script(add_custom_script(add_custom_script(add_custom_script(
            s2, "unset XDG_RUNTIME_DIR"),
            "jupyter-notebook --no-browser --ip=$HOSTNAME"),
            "module list"),
            "which python")

JupyterLabJobInit(account, partition, time, jupyterlab_module) ==
    LET s0 == JobInit("JupyterLabJob", account, partition, time)
        s1 == set_process_output([s0 EXCEPT !.notebook_url = ""], TRUE)
        s2 == add_module([s1 EXCEPT !.jupyterlab_module = jupyterlab_module],
                         jupyterlab_module, "")
    IN  add_custom_script(add_custom_script(add_custom_script(add_custom_script(
            s2, "unset XDG_RUNTIME_DIR"),
            "jupyter-lab --no-browser --ip=$HOSTNAME"),
            "module list"),
            "which python")

VMJobInit(account, partition, time) ==
    LET s0 == JobInit("VMJob", account, partition, time)
        s1 == set_process_output([s0 EXCEPT !.notebook_url = ""], FALSE)
        s2 == add_custom_script([s1 EXCEPT !.update_processing = TRUE],
                                "while true; do date; sleep 5; done")
    IN  [s2 EXCEPT !.hostname = "", !.oversubscribe = TRUE, !.memory = 100,
                   !.gres = "win10m", !.nodeCount = -1, !.tasksPerNode = -1]

---------------------------------------------------------------------------
(* Detection from the job's output: JupyterNotebookJob and JupyterLabJob.  *)
(* A detection call works on the pair of the object and what has been      *)
(* printed: [self, out].                                                   *)

\* on_notebook_url_found: print("Notebook found: "+url), "Lab found: " for
\* the lab job.
on_notebook_url_found(st, url) ==
    [st EXCEPT !.out = Append(@,
        (IF st.self.cls = "JupyterLabJob" THEN "Lab found: "
         ELSE "Notebook found: ") \o url)]

token_count_ok_any(parts) == Len(parts) >= 4

\* len(parts) == 4
token_count_ok(parts) == Len(parts) = 4

\* self.process_output = False
found_flag(self) == set_process_output(self, FALSE)

\* The body of the loop over output_lines, for one line.
scan_line(st, line) ==
    IF Find(line, "?token=") # -1
    THEN LET parts == Split(line)
         IN  IF token_count_ok(parts)
             THEN LET s1 == found_flag([st.self EXCEPT !.notebook_url = parts[4]])
                  IN  on_notebook_url_found([st EXCEPT !.self = s1],
                                            s1.notebook_url)
             ELSE st
    ELSE st

RECURSIVE scan_lines(_, _)
\* for line in output_lines: ...
scan_lines(st, output_lines) ==
    IF output_lines = <<>> THEN st
    ELSE scan_lines(scan_line(st, Head(output_lines)), Tail(output_lines))

\* Job.do_process_output is "pass"; the notebook and lab jobs override it.
do_process_output(st, output_lines) ==
    IF st.self.cls \in {"JupyterNotebookJob", "JupyterLabJob"}
    THEN IF get_process_output(st.self) THEN scan_lines(st, output_lines)
         ELSE st
    ELSE st

---------------------------------------------------------------------------
(* Detection from the artifact file: VMJob.                                *)

HOME == "/home/user"

\* What the file system holds at a path that names no file, and at a path
\* that names a file of the given lines.
NoFile == [exists |-> FALSE, lines |-> <<>>]

File(lines) == [exists |-> TRUE, lines |-> lines]

\* os.path.join(a, b) for a relative b and an a without a trailing slash.
path_join(a, b) == a \o "/" \o b

job_host_filename(self) ==
    path_join(path_join(HOME, ".lhpc"), "vm_host_" \o ToString(self.id) \o ".ip")

\* on_vm_available: print("VM vailable: "+hostname)
on_vm_available(st, hostname) ==
    [st EXCEPT !.out = Append(@, "VM vailable: " \o hostname)]

poll_flag_rearm(self) == [self EXCEPT !.update_processing = TRUE]

\* self.update_processing = False
poll_flag(self) == [self EXCEPT !.update_processing = FALSE]

\* Job.do_update_processing is "pass"; VMJob overrides it.  A detection call
\* here works on [self, out, exc]: exc is the exception the call ends with.
do_update_processing(st, files) ==
    IF st.self.cls = "VMJob"
    THEN LET name == job_host_filename(st.self)
         IN  IF name \in DOMAIN files /\ files[name].exists  \* os.path.exists
             THEN LET lines == files[name].lines          \* f.readlines()
                  IN  IF lines = <<>>
                      THEN [st EXCEPT !.exc = "IndexError"]   \* readlines()[0]
                      ELSE LET hostname == Strip(lines[1])
                               s1 == [poll_flag(st.self) EXCEPT
                                          !.hostname = hostname]
                           IN  on_vm_available([st EXCEPT !.self = s1], hostname)
             ELSE st
    ELSE st

---------------------------------------------------------------------------
(* Inputs.                                                                 *)

Accounts == {"", "proj42"}
Partitions == {"", "lu"}
NodeCounts == {-2, -1, 0, 2}
TaskCounts == {-1, 1}
GresValues == {"", "gpu:1"}
Memories == {-1, 0, 3000}
ConstraintNames == {"a", "b"}
Modules == {<<"numpy", "">>, <<"numpy", "1.2">>}
CustomLines == {"hostname", "#SBATCH -N 9"}
ExtraLines == {"date"}
ExtraOptions == {"--x11"}

\* Lines a notebook or lab server may print.
GoodLine1 == "[I 10:00 NotebookApp] http://n1:8888/?token=a1"
GoodLine2 == "  [C 10:01 LabApp]   http://n2:8888/lab?token=b2 "
ShortLine == "or http://127.0.0.1:8888/?token=a1"
LongLine == "[I 10:00 NotebookApp] at: http://n1:8888/?token=c3"
PlainLine == "[I 10:00 NotebookApp] started"

OutputLines == {GoodLine1, GoodLine2, ShortLine, LongLine, PlainLine}

RECURSIVE SeqsUpTo(_, _)
\* The sequences over S of length at most n.
SeqsUpTo(S, n) ==
    IF n = 0 THEN {<<>>}
    ELSE LET shorter == SeqsUpTo(S, n - 1)
         IN  shorter \cup {Append(q, x) : q \in shorter, x \in S}

Batches == SeqsUpTo(OutputLines, MaxBatch)

SingleLines == {<<GoodLine1>>, <<GoodLine2>>, <<ShortLine>>}

\* The ids a job has: -1 from the constructor, then the scheduler's.
Ids == {-1, 7}

Paths == {job_host_filename([id |-> i]) : i \in Ids}

\* What readlines() returns for the artifact file.
FileContents == {<<>>, <<"vm1\n">>, <<"  vm2 \n", "eth0\n">>}

---------------------------------------------------------------------------
(* The state after construction.                                           *)

\* No well-formed token line delivered yet.  line: the first one delivered;
\* more: others followed it; skipped: a batch whose token lines were all
\* malformed came before it.
NoGood == [line |-> "", more |-> FALSE, skipped |-> FALSE]

NoFiles == [p \in Paths |-> NoFile]

Constructed(j, t, files) ==
    /\ job = j
    /\ twin = t
    /\ fs = files
    /\ stdout = <<>>
    /\ raised = ""
    /\ op = [job |-> "__init__", twin |-> "__init__"]
    /\ firstGood = NoGood

DefaultJob == JobInit("Job", "", "", "00:60:00")

ScanJobs ==
    { JupyterNotebookJobInit("", "", "00:30:00", "Anaconda3"),
      JupyterLabJobInit("", "", "00:30:00", "Anaconda3") }

DefaultJobs ==
    {DefaultJob, PlaceHolderJobInit("", "", "00:30:00"),
     VMJobInit("", "", "00:30:00")} \cup ScanJobs

\* A Job constructed with an account and a partition, its other fields then
\* assigned directly, as the attributes are public.
ConfiguredJobs(nodeCounts, memories) ==
    { [JobInit("Job", a, p, "00:60:00") EXCEPT
          !.submitNode = w, !.node = (IF w THEN "cn01" ELSE ""),
          !.nodeCount = n, !.tasksPerNode = t, !.gres = g, !.memory = m,
          !.exclusive = x, !.oversubscribe = o] :
      a \in Accounts, p \in Partitions, w \in BOOLEAN, n \in nodeCounts,
      t \in TaskCounts, g \in GresValues, m \in memories,
      x \in BOOLEAN, o \in BOOLEAN }

---------------------------------------------------------------------------
(* The operations, as actions on the object t ("job" or "twin").           *)

Obj(t) == IF t = "job" THEN job ELSE twin

\* The history of an object: "__init__" after construction, "call" after
\* a call other than update(), "update" after its first update(), then
\* "recall" and "reupdate".
After(last, k) ==
    IF k = "update"
    THEN IF last \in {"__init__", "call"} THEN "update" ELSE "reupdate"
    ELSE IF last \in {"__init__", "call"} THEN "call" ELSE "recall"

\* The last call on object t was update().
Rendered(t) == op[t] \in {"update", "reupdate"}

\* A call of kind k on object t leaves it as j2; nothing else changes.
Call(t, k, j2) ==
    /\ IF t = "job" THEN job' = j2 /\ UNCHANGED twin
       ELSE twin' = j2 /\ UNCHANGED job
    /\ op' = [op EXCEPT ![t] = After(@, k)]
    /\ raised' = ""
    /\ UNCHANGED <<fs, stdout, firstGood>>

RECURSIVE TrailingExtras(_)
\* The lines at the end of scriptLines that add_script or add_option put
\* there since the last rendering.
TrailingExtras(lines) ==
    IF lines # <<>> /\ lines[Len(lines)] \in
           ExtraLines \cup {"#SBATCH " \o o : o \in ExtraOptions}
    THEN 1 + TrailingExtras(SubSeq(lines, 1, Len(lines) - 1))
    ELSE 0

\* The constraints, modules and custom lines an object holds, and how many
\* of them its constructor put there.
Items(j) == Len(j.constraints) + Len(j.module_list) + Len(j.customLines)

BaseItems(j) ==
    CASE j.cls \in {"JupyterNotebookJob", "JupyterLabJob"} -> 5
      [] j.cls \in {"PlaceHolderJob", "VMJob"} -> 1
      [] OTHER -> 0

\* Items are added on top of the constructor's, at most MaxItems of them.
Room(j) == BaseItems(j) <= Items(j) /\ Items(j) < BaseItems(j) + MaxItems

AssignAccount(t) ==
    \E a \in Accounts : Call(t, "call", [Obj(t) EXCEPT !.account = a])

AssignId(t) ==
    \E i \in Ids : Call(t, "call", [Obj(t) EXCEPT !.id = i])

AddConstraint(t, names) ==
    \E c \in names :
        Room(Obj(t)) /\ Call(t, "call", add_constraint(Obj(t), c))

ClearConstraints(t) == Call(t, "call", clear_constraints(Obj(t)))

AddModule(t, modules) ==
    \E m \in modules :
        Room(Obj(t)) /\ Call(t, "call", add_module(Obj(t), m[1], m[2]))

AddCustomScript(t, lines) ==
    \E line \in lines :
        Room(Obj(t)) /\ Call(t, "call", add_custom_script(Obj(t), line))

AddScript(t) ==
    \E line \in ExtraLines :
        /\ TrailingExtras(Obj(t).scriptLines) < MaxExtra
        /\ Call(t, "call", add_script(Obj(t), line))

AddOption(t) ==
    \E o \in ExtraOptions :
        /\ TrailingExtras(Obj(t).scriptLines) < MaxExtra
        /\ Call(t, "call", add_option(Obj(t), o))

ClearScript(t) == Call(t, "call", clear_script(Obj(t)))

Update(t) == Call(t, "update", update(Obj(t)))

SetProcessOutput(t) ==
    \E flag \in BOOLEAN : Call(t, "call", set_process_output(Obj(t), flag))

AssignUpdateProcessing(t) ==
    \E flag \in BOOLEAN :
        Call(t, "call", [Obj(t) EXCEPT !.update_processing = flag])

\* A qualifying line holds the token marker; a well-formed one also splits
\* into exactly 4 whitespace tokens.
Qualifying(line) == Find(line, "?token=") # -1

WellFormed(line) == Qualifying(line) /\ Len(Split(line)) = 4

WellFormedIn(lines) == SelectSeq(lines, WellFormed)

\* The history of delivered lines, after one more batch.
Delivered(good, lines) ==
    LET wf == WellFormedIn(lines)
    IN  IF good.line # "" THEN [good EXCEPT !.more = @ \/ wf # <<>>]
        ELSE IF wf # <<>>
        THEN [good EXCEPT !.line = wf[1], !.more = Len(wf) > 1]
        ELSE [good EXCEPT !.skipped = @ \/ SelectSeq(lines, Qualifying) # <<>>]

\* job.do_process_output(b)
DoProcessOutput(b) ==
    LET st == do_process_output([self |-> job, out |-> stdout], b)
    IN  /\ op' = [op EXCEPT !.job = After(@, "call")]
        /\ raised' = ""
        /\ UNCHANGED <<twin, fs>>
        /\ Len(st.out) <= MaxPrinted
        /\ stdout' = st.out
        /\ job' = st.self
        /\ firstGood' = Delivered(firstGood, b)

\* job.do_update_processing()
DoUpdateProcessing ==
    LET st == do_update_processing([self |-> job, out |-> stdout, exc |-> ""], fs)
    IN  /\ op' = [op EXCEPT !.job = After(@, "call")]
        /\ UNCHANGED <<twin, fs, firstGood>>
        /\ Len(st.out) <= MaxPrinted
        /\ stdout' = st.out
        /\ raised' = st.exc
        /\ job' = st.self

\* Out-of-band tooling writes or removes an artifact file, at one of the
\* given paths.
WriteFile(paths) ==
    \E p \in paths, c \in FileContents :
        /\ fs' = [fs EXCEPT ![p] = File(c)]
        /\ UNCHANGED <<job, twin, stdout, raised, op, firstGood>>

RemoveFile(paths) ==
    \E p \in paths :
        /\ fs[p].exists
        /\ fs' = [fs EXCEPT ![p] = NoFile]
        /\ UNCHANGED <<job, twin, stdout, raised, op, firstGood>>

---------------------------------------------------------------------------
(* Specifications.                                                         *)

\* Rendering, over every combination of the scalar fields: a configured Job
\* is given constraints and rendered.
InitFields ==
    \E j \in ConfiguredJobs(NodeCounts, Memories) : Constructed(j, DefaultJob, NoFiles)

NextFields ==
    /\ ~Rendered("job")
    /\ \/ AddConstraint("job", ConstraintNames)
       \/ ClearConstraints("job")
       \/ Update("job")

SpecFields == InitFields /\ [][NextFields]_vars

\* Rendering, over every order of adding constraints, modules and custom
\* lines to a configured Job.
InitOrder ==
    \E j \in ConfiguredJobs({-1, 2}, {-1, 3000}) : Constructed(j, DefaultJob, NoFiles)

NextOrder ==
    /\ ~Rendered("job")
    /\ \/ AddConstraint("job", ConstraintNames)
       \/ AddModule("job", Modules)
       \/ AddCustomScript("job", CustomLines)
       \/ Update("job")

SpecOrder == InitOrder /\ [][NextOrder]_vars

\* Two jobs: job is mutated and rendered in any order and any number of
\* times, twin is configured and rendered once.
InitPair == Constructed(DefaultJob, DefaultJob, NoFiles)

NextPair ==
    \/ AssignAccount("job")
    \/ AddCustomScript("job", {"hostname"})
    \/ AddOption("job")
    \/ AddScript("job")
    \/ ClearScript("job")
    \/ Update("job")
    \/ /\ ~Rendered("twin")
       /\ \/ AssignAccount("twin")
          \/ AddCustomScript("twin", {"hostname"})
          \/ Update("twin")

SpecPair == InitPair /\ [][NextPair]_vars

\* Detection from the output: a notebook or lab job is handed batches of
\* output lines, between field assignments and renderings.
InitScan == \E j \in ScanJobs : Constructed(j, DefaultJob, NoFiles)

NextScan ==
    \/ \E b \in Batches : DoProcessOutput(b)
    \/ AssignAccount("job")
    \/ Update("job")

SpecScan == InitScan /\ [][NextScan]_vars

\* Detection from the artifact file: a VM job is polled while the scheduler
\* assigns its id and the artifact files come and go.
InitVM == Constructed(VMJobInit("", "", "00:30:00"), DefaultJob, NoFiles)

NextVM ==
    \/ DoUpdateProcessing
    \/ WriteFile(Paths)
    \/ RemoveFile(Paths)
    \/ AssignId("job")
    \/ Update("job")

SpecVM == InitVM /\ [][NextVM]_vars

\* Every kind of job under its detection calls, update() and the flag
\* attributes the class exposes.
InitFlags == \E j \in DefaultJobs : Constructed(j, DefaultJob, NoFiles)

NextFlags ==
    \/ \E b \in SingleLines : DoProcessOutput(b)
    \/ DoUpdateProcessing
    \/ WriteFile({job_host_filename(job)})
    \/ Update("job")
    \/ SetProcessOutput("job")
    \/ AssignUpdateProcessing("job")

SpecFlags == InitFlags /\ [][NextFlags]_vars

\* A plain, a notebook and a VM job under the operations that change their
\* fields, their detection calls and update(); the job's artifact file may
\* be there.
Init ==
    \E j \in {DefaultJob, VMJobInit("", "", "00:30:00"),
              JupyterNotebookJobInit("", "", "00:30:00", "Anaconda3")} :
        \E c \in {NoFile, File(<<"vm1\n">>)} :
            Constructed(j, DefaultJob, [NoFiles EXCEPT ![job_host_filename(j)] = c])

Next ==
    \/ AssignAccount("job")
    \/ AddConstraint("job", {"a"})
    \/ ClearConstraints("job")
    \/ AddModule("job", {<<"numpy", "1.2">>})
    \/ AddCustomScript("job", {"hostname"})
    \/ ClearScript("job")
    \/ Update("job")
    \/ \E b \in SingleLines : DoProcessOutput(b)
    \/ DoUpdateProcessing

Spec == Init /\ [][Next]_vars

---------------------------------------------------------------------------
(* Reading a script text.                                                  *)

\* The script text holds the line.
HasLine(text, line) == line \in Range(Lines(text))

\* The script text holds a line that starts with the prefix.
HasLineWith(text, prefix) ==
    \E l \in Range(Lines(text)) : StartsWith(l, prefix)

\* Among the lines ls, the directive that starts with the prefix is there
\* as `line` and nowhere else (present), or no line starts with the prefix
\* (absent).
DirectiveIs(ls, prefix, present, line) ==
    LET found == {l \in ls : StartsWith(l, prefix)}
    IN  IF present THEN found = {line} ELSE found = {}

---------------------------------------------------------------------------
(* C7: omission correctness.                                               *)

\* C7 as claimed: after update(), the directive of each field is absent
\* exactly when the field holds its sentinel ('' or -1 or false or empty) and
\* otherwise present with the exact flag and value; time and job name are
\* always present.
C7_AbsentExactlyAtSentinel ==
    Rendered("job") =>
        LET t == Range(Lines(job.script))
        IN  /\ DirectiveIs(t, "#SBATCH -A ", job.account # "",
                           "#SBATCH -A " \o job.account)
            /\ DirectiveIs(t, "#SBATCH -p ", job.partition # "",
                           "#SBATCH -p " \o job.partition)
            /\ DirectiveIs(t, "#SBATCH -N ", job.nodeCount # -1,
                           "#SBATCH -N " \o ToString(job.nodeCount))
            /\ DirectiveIs(t, "#SBATCH --ntasks-per-node=", job.tasksPerNode # -1,
                           "#SBATCH --ntasks-per-node=" \o ToString(job.tasksPerNode))
            /\ DirectiveIs(t, "#SBATCH --gres=", job.gres # "",
                           "#SBATCH --gres=" \o job.gres)
            /\ DirectiveIs(t, "#SBATCH --mem=", job.memory # -1,
                           "#SBATCH --mem=" \o ToString(job.memory))
            /\ DirectiveIs(t, "#SBATCH --exclusive", job.exclusive,
                           "#SBATCH --exclusive")
            /\ DirectiveIs(t, "#SBATCH --oversubscribe", job.oversubscribe,
                           "#SBATCH --oversubscribe")
            /\ DirectiveIs(t, "#SBATCH --constraint=", job.constraints # <<>>,
                           "#SBATCH --constraint=" \o Join("&", job.constraints))
            /\ DirectiveIs(t, "#SBATCH --time=", TRUE,
                           "#SBATCH --time=" \o job.time)
            /\ DirectiveIs(t, "#SBATCH -J ", TRUE, "#SBATCH -J " \o job.name)

\* C7 as amended: after update(), the partition directive is present exactly
\* when partition is not '' and submitNode is false, the node-count and
\* tasks-per-node directives exactly when the value is not negative, the
\* memory directive exactly when memory is greater than 0; the account, gres,
\* exclusive, oversubscribe and constraint directives are absent exactly at
\* the sentinel; every directive present carries the exact flag and value;
\* time and job name are always present.
C7_Omission ==
    Rendered("job") =>
        LET t == Range(Lines(job.script))
        IN  /\ DirectiveIs(t, "#SBATCH -A ", job.account # "",
                           "#SBATCH -A " \o job.account)
            /\ DirectiveIs(t, "#SBATCH -p ",
                           job.partition # "" /\ ~job.submitNode,
                           "#SBATCH -p " \o job.partition)
            /\ DirectiveIs(t, "#SBATCH -N ", job.nodeCount >= 0,
                           "#SBATCH -N " \o ToString(job.nodeCount))
            /\ DirectiveIs(t, "#SBATCH --ntasks-per-node=", job.tasksPerNode >= 0,
                           "#SBATCH --ntasks-per-node=" \o ToString(job.tasksPerNode))
            /\ DirectiveIs(t, "#SBATCH --gres=", job.gres # "",
                           "#SBATCH --gres=" \o job.gres)
            /\ DirectiveIs(t, "#SBATCH --mem=", job.memory > 0,
                           "#SBATCH --mem=" \o ToString(job.memory))
            /\ DirectiveIs(t, "#SBATCH --exclusive", job.exclusive,
                           "#SBATCH --exclusive")
            /\ DirectiveIs(t, "#SBATCH --oversubscribe", job.oversubscribe,
                           "#SBATCH --oversubscribe")
            /\ DirectiveIs(t, "#SBATCH --constraint=", job.constraints # <<>>,
                           "#SBATCH --constraint=" \o Join("&", job.constraints))
            /\ DirectiveIs(t, "#SBATCH --time=", TRUE,
                           "#SBATCH --time=" \o job.time)
            /\ DirectiveIs(t, "#SBATCH -J ", TRUE, "#SBATCH -J " \o job.name)

\* A rendered job with memory 0, a partition overridden by a node pin, a
\* node count below -1 and two constraints.
C7_Witness ==
    /\ Rendered("job")
    /\ job.memory = 0 /\ job.nodeCount = -2
    /\ job.submitNode /\ job.partition = "lu"
    /\ job.constraints = <<"a", "b">>
    /\ HasLine(job.script, "#SBATCH --constraint=a&b")
    /\ HasLine(job.script, "#SBATCH -w cn01")
    /\ ~HasLineWith(job.script, "#SBATCH --mem=")

---------------------------------------------------------------------------
(* C6: fixed emission order.                                               *)

\* The directives in the order claimed: account, node pin or partition,
\* node count, tasks per node, time, gres, memory, exclusive, oversubscribe,
\* constraint, job name.
DirectiveOrder ==
    << {"#SBATCH -A "}, {"#SBATCH -w ", "#SBATCH -p "}, {"#SBATCH -N "},
       {"#SBATCH --ntasks-per-node="}, {"#SBATCH --time="}, {"#SBATCH --gres="},
       {"#SBATCH --mem="}, {"#SBATCH --exclusive"}, {"#SBATCH --oversubscribe"},
       {"#SBATCH --constraint="}, {"#SBATCH -J "} >>

\* The place of a line in DirectiveOrder, 0 for a line that is no directive.
DirectiveRank(line) ==
    LET at == {k \in 1..Len(DirectiveOrder) :
                  \E p \in DirectiveOrder[k] : StartsWith(line, p)}
    IN  IF at = {} THEN 0 ELSE CHOOSE k \in at : TRUE

RECURSIVE DirectiveBlockEnd(_, _)
\* The index of the last line of the run of "#SBATCH " lines that starts at i
\* (i - 1 when line i is none).
DirectiveBlockEnd(ls, i) ==
    IF i <= Len(ls) /\ StartsWith(ls[i], "#SBATCH ")
    THEN DirectiveBlockEnd(ls, i + 1) ELSE i - 1

\* C6: after update() the script's lines are the interpreter marker, a blank
\* line, the directives in the claimed relative order with the job name last
\* and the node pin in place of the partition exactly when submitNode, then
\* the echo block, one module-load line per module in list order, and the
\* custom lines in insertion order at the very end.
C6_EmissionOrder ==
    Rendered("job") =>
        LET ls == Lines(job.script)
            e == DirectiveBlockEnd(ls, 3)
            rank == [i \in 3..e |-> DirectiveRank(ls[i])]
            loads == [i \in 1..Len(job.module_list) |->
                         IF job.module_list[i][2] = ""
                         THEN "module load " \o job.module_list[i][1]
                         ELSE "module load " \o job.module_list[i][1]
                                  \o "/" \o job.module_list[i][2]]
        IN  /\ Len(ls) >= 3 /\ ls[1] = "#!/bin/bash" /\ ls[2] = ""
            /\ e >= 3
            /\ \A i \in 3..e : rank[i] # 0
            /\ \A i, j \in 3..e : i < j => rank[i] < rank[j]
            /\ rank[e] = Len(DirectiveOrder)
            /\ \A i \in 3..e :
                   /\ StartsWith(ls[i], "#SBATCH -w ") => job.submitNode
                   /\ StartsWith(ls[i], "#SBATCH -p ") => ~job.submitNode
            /\ SubSeq(ls, e + 1, Len(ls)) = EchoBlock \o loads \o job.customLines

\* A rendered job with every directive, a module and a custom line that
\* looks like a directive.
C6_Witness ==
    /\ Rendered("job")
    /\ job.account # "" /\ job.submitNode /\ job.nodeCount >= 0
    /\ job.tasksPerNode >= 0 /\ job.gres # "" /\ job.memory > 0
    /\ job.exclusive /\ job.oversubscribe
    /\ job.module_list = <<<<"numpy", "1.2">>>>
    /\ job.customLines = <<"#SBATCH -N 9">>
    /\ LET ls == Lines(job.script)
       IN  /\ ls[Len(ls)] = "#SBATCH -N 9"
           /\ ls[Len(ls) - 1] = "module load numpy/1.2"
           /\ ls[3] = "#SBATCH -A proj42"

---------------------------------------------------------------------------
(* C8: rendering is a function of the current fields.                      *)

\* The fields of a job: everything but the rendered text and the line
\* buffer it is assembled in.
Fields(j) == [j EXCEPT !.script = "", !.scriptLines = <<>>]

\* C8: update() called right after update() leaves the script as it is, and
\* two jobs with the same field values, each just rendered by update(), have
\* the same script, whatever mutations, add_script / add_option calls and
\* earlier renderings came before.
C8_PureRendering ==
    /\ [][(Update("job") /\ Rendered("job")) => job'.script = job.script]_vars
    /\ []((Rendered("job") /\ Rendered("twin") /\ Fields(job) = Fields(twin))
             => job.script = twin.script)

\* job, rendered more than once and holding a custom line added along the
\* way, has reached the fields of twin, rendered once.
C8_Witness ==
    /\ op.job = "reupdate" /\ op.twin = "update"
    /\ Fields(job) = Fields(twin)
    /\ job.account = "" /\ job.customLines = <<"hostname">>
    /\ HasLine(job.script, "hostname")

---------------------------------------------------------------------------
(* C10: the script text changes only on render.                            *)

\* C10: a step that changes the script text of the job is an update() call;
\* every other operation leaves the text as the last rendering made it.
C10_ScriptChangesOnlyOnRender ==
    [][job'.script # job.script => Update("job")]_vars

\* After a rendering, account and a constraint were assigned and the script
\* still is the earlier rendering, without them.
C10_Witness ==
    /\ op.job = "recall"
    /\ job.account = "proj42" /\ job.constraints = <<"a">>
    /\ ~HasLineWith(job.script, "#SBATCH -A ")
    /\ ~HasLineWith(job.script, "#SBATCH --constraint=")
    /\ HasLine(update(job).script, "#SBATCH -A proj42")

---------------------------------------------------------------------------
(* C3: flag monotonicity.                                                  *)

\* A step leaves each flag as it is or takes it from true to false.
FlagsOnlyFall ==
    /\ job'._process_output => job._process_output
    /\ job'.update_processing => job.update_processing

\* C3 as claimed: under every public operation, the process_output setter
\* and the update_processing attribute included, no flag goes from false to
\* true.
C3_NeverRearmed == [][FlagsOnlyFall]_vars

\* C3 as amended: under update(), do_process_output and do_update_processing
\* each flag changes only from true to false, so at most once in any run of
\* these calls.
C3_DetectionOnlyLowers ==
    [][\/ FlagsOnlyFall
       \/ ~(\/ Update("job")
            \/ \E b \in SingleLines : DoProcessOutput(b)
            \/ DoUpdateProcessing)]_vars

\* A notebook job whose flag the scan has lowered, and a callback printed.
C3_Witness ==
    /\ job.cls = "JupyterNotebookJob"
    /\ ~job._process_output
    /\ job.notebook_url = "http://n1:8888/?token=a1"
    /\ stdout = <<"Notebook found: http://n1:8888/?token=a1">>

---------------------------------------------------------------------------
(* C4: the VM job's script.                                                *)

VMDirectives(text) ==
    LET ls == Range(Lines(text))
    IN  /\ "#SBATCH --oversubscribe" \in ls
        /\ "#SBATCH --mem=100" \in ls
        /\ "#SBATCH --gres=win10m" \in ls
        /\ \A l \in ls : /\ ~StartsWith(l, "#SBATCH -N ")
                         /\ ~StartsWith(l, "#SBATCH --ntasks-per-node")

\* C4 as claimed: the script of a VM job, right after construction and after
\* any update(), holds the oversubscribe, mem=100 and gres=win10m directives
\* and no node-count or tasks-per-node directive.
C4_VMScriptAlways ==
    (job.cls = "VMJob" /\ (op.job = "__init__" \/ Rendered("job")))
        => VMDirectives(job.script)

\* C4 as amended: from its first update() on, the script of a VM job whose
\* fields are as the constructor left them holds the three directives and no
\* node-count or tasks-per-node directive; until then it is the rendering
\* Job.__init__ made, with '-N 1' and '--ntasks-per-node=1' and without the
\* three directives and without the custom line.
C4_VMScriptOnceRendered ==
    job.cls = "VMJob" =>
        IF op.job \in {"__init__", "call"}
        THEN job.script = JobInit("VMJob", "", "", "00:30:00").script
             /\ LET ls == Range(Lines(job.script))
                IN  /\ "#SBATCH -N 1" \in ls
                    /\ "#SBATCH --ntasks-per-node=1" \in ls
                    /\ ls \cap {"#SBATCH --oversubscribe", "#SBATCH --mem=100",
                                "#SBATCH --gres=win10m",
                                "while true; do date; sleep 5; done"} = {}
        ELSE VMDirectives(job.script)

\* A VM job that update() has rendered.
C4_Witness ==
    /\ job.cls = "VMJob" /\ Rendered("job")
    /\ HasLine(job.script, "#SBATCH --gres=win10m")
    /\ HasLine(job.script, "while true; do date; sleep 5; done")

---------------------------------------------------------------------------
(* C2, C5: polling the artifact file.                                      *)

\* What the file system holds at the path of the job's artifact file.
Artifact == fs[job_host_filename(job)]

\* C2: a do_update_processing call with the file absent changes nothing; a
\* call with update_processing true and a file with a first line lowers the
\* flag, records the trimmed line and prints once; a call with
\* update_processing false changes nothing and prints nothing.
C2_PollingIdempotence ==
    [][DoUpdateProcessing =>
          IF ~Artifact.exists
          THEN job' = job /\ stdout' = stdout
          ELSE IF ~job.update_processing
          THEN job' = job /\ stdout' = stdout
          ELSE Artifact.lines # <<>> =>
                  /\ ~job'.update_processing
                  /\ job'.hostname = Strip(Artifact.lines[1])
                  /\ Len(stdout') = Len(stdout) + 1]_vars

\* C5: a do_update_processing call that finds the artifact file empty raises
\* nothing and changes nothing.
C5_EmptyFileIsNotYet ==
    [][(DoUpdateProcessing /\ Artifact = File(<<>>)) =>
          raised' = "" /\ job' = job /\ stdout' = stdout]_vars

---------------------------------------------------------------------------
(* C1, C9: scanning the output.                                            *)

\* C1: once two or more well-formed token lines have been delivered, in one
\* batch or several, the URL is the 4th token of the first of them, one
\* callback has printed, and process_output is false.
C1_AtMostOnce ==
    (job.cls \in {"JupyterNotebookJob", "JupyterLabJob"} /\ firstGood.more) =>
        /\ job.notebook_url = Split(firstGood.line)[4]
        /\ Len(stdout) = 1
        /\ ~job._process_output

\* C9: a scan with process_output true whose token lines are all malformed
\* changes nothing and prints nothing; a scan with process_output true that
\* delivers a well-formed token line leaves the 4th token of such a line as
\* the URL and process_output false.
C9_MalformedSkipped ==
    [][\A b \in Batches :
          (job._process_output /\ DoProcessOutput(b)) =>
              LET token == SelectSeq(b, Qualifying)
                  wf == WellFormedIn(b)
              IN  /\ (token # <<>> /\ wf = <<>>) =>
                         job' = job /\ stdout' = stdout
                  /\ wf # <<>> =>
                         /\ ~job'._process_output
                         /\ \E i \in 1..Len(wf) :
                                job'.notebook_url = Split(wf[i])[4]]_vars

\* A batch of malformed token lines went by, and a later batch brought the
\* URL.
C9_Witness ==
    /\ firstGood.skipped /\ firstGood.line = GoodLine1 /\ ~firstGood.more
    /\ job.notebook_url = "http://n1:8888/?token=a1"
    /\ ~job._process_output
    /\ Len(stdout) = 1

=============================================================================
